---- MODULE Spec2Model ----
(***************************************************************************)
(* Model of src/data_fetcher.py: the fetch-and-cache loop of               *)
(* fetch_satellite_images.  The tabular dataset (pd.read_csv), the HTTP    *)
(* endpoint (requests.get) and the file system (Path.exists, open/write)   *)
(* are the environment: their answers are chosen nondeterministically.    *)
(***************************************************************************)
EXTENDS Integers, Sequences, FiniteSets, TLC

----------------------------------------------------------------------------
(* Bounds of the model *)

MaxRows == 2

MaxRuns == 2

(* Program constants, data_fetcher.py lines 24-32 *)

IMAGE_DIR == "../data/images/test"

MAP_TYPE == "satellite"

ZOOM == 19

IMAGE_SIZE == "256x256"

SCALE == 1

API_KEY == "key"

required_cols == {"id", "lat", "long"}

(* Values the environment draws from *)

Ids == {1, 2}

Lats == {47, 48}

Longs == {-122}

Bodies == {<<1, 2>>, <<3>>}

StatusCodes == {200, 404, 500}

OldContent == <<9>>

ColumnSets ==
  { required_cols, required_cols \ {"lat"}, required_cols \ {"id"}, required_cols \ {"long"} }

----------------------------------------------------------------------------
VARIABLES
  csv,          \* the dataset file at DATA_PATH: [columns, rows]
  dir_exists,   \* whether IMAGE_DIR exists
  files,        \* the image directory: path -> [exists, content]
  pc,           \* "idle" | "loop" | "done" | "raised"
  run,          \* number of runs started
  df,           \* the rows loaded by this run
  total, downloaded, skipped, failed,
  i,            \* number of rows the loop has consumed
  requests,     \* the GET requests issued by this run, in order
  log,          \* the diagnostics and the summary printed by this run
  results,      \* history: per row of this run, how it was counted
  last,         \* history: what the environment answered in the latest iteration
  files_at_start, \* history: the directory when this run started
  prev_results, \* history: results of the previous run
  writes,       \* history: path -> number of times the file was opened for writing
  endpoint, disk, order, alt   \* used by the order-independence specification only

vars == << csv, dir_exists, files, pc, run, df, total, downloaded, skipped, failed,
           i, requests, log, results, last, files_at_start, prev_results, writes,
           endpoint, disk, order, alt >>

----------------------------------------------------------------------------
(* Helpers *)

Min(a, b) == IF a < b THEN a ELSE b

Prefix(s, k) == SubSeq(s, 1, Min(k, Len(s)))

NoFile == [exists |-> FALSE, content |-> <<>>]

File(bytes) == [exists |-> TRUE, content |-> bytes]

\* faulty variant: the file name does not depend on the record
image_path_fixed(property_id) == << IMAGE_DIR, "image", ".png" >>

\* f"{property_id}.png" under Path(IMAGE_DIR)
image_path_of(property_id) == << IMAGE_DIR, property_id, ".png" >>

Paths == { image_path_of(id) : id \in Ids }

build_image_url(lat, lon) ==
  [ center |-> <<lat, lon>>, zoom |-> ZOOM, size |-> IMAGE_SIZE,
    maptype |-> MAP_TYPE, scale |-> SCALE, key |-> API_KEY ]

\* faulty variant: the existence check is missing
path_exists_never(fs, path) == FALSE

\* faulty variant: the directory is listed once, when the run starts
path_exists_at_start(fs, path) == files_at_start[path].exists

\* image_path.exists()
path_exists(fs, path) == fs[path].exists

(* What the environment answers to requests.get: a response or a raised exception *)
NoResponse == [kind |-> "none", status_code |-> 0, content |-> <<>>]

Response(code, bytes) == [kind |-> "http", status_code |-> code, content |-> bytes]

Raised == [kind |-> "raised", status_code |-> 0, content |-> <<>>]

ErrorBody == <<>>

(* What the file system does to open(filepath, "wb") / f.write: "ok", or open   *)
(* raises (nothing created), or the write raises after open created/truncated *)
(* the file and `written` bytes reached it.                                   *)
SaveOk == [kind |-> "ok", written |-> 0]

SaveFaults(image_bytes) ==
  { [kind |-> "open_failed", written |-> 0] } \cup
  { [kind |-> "write_failed", written |-> k] : k \in 0..(Len(image_bytes) - 1) }

\* faulty variant: the file is opened but the bytes are not written
save_image_empty(fs, image_bytes, filepath, sv) ==
  IF sv.kind = "open_failed" THEN fs ELSE [fs EXCEPT ![filepath] = File(<<>>)]

\* save_image: the directory after the call
save_image(fs, image_bytes, filepath, sv) ==
  CASE sv.kind = "ok"           -> [fs EXCEPT ![filepath] = File(image_bytes)]
    [] sv.kind = "open_failed"  -> fs
    [] sv.kind = "write_failed" ->
         [fs EXCEPT ![filepath] = File(Prefix(image_bytes, sv.written))]

\* whether save_image raised
save_raised(sv) == sv.kind # "ok"

\* whether open(filepath, "wb") created/truncated the file
save_opened(sv) == sv.kind \in {"ok", "write_failed"}

Diag(tag, id, code) == [tag |-> tag, id |-> id, code |-> code]

Result(id, kind) == [id |-> id, kind |-> kind]

Answer(resp, sv) == [resp |-> resp, save |-> sv]

(***************************************************************************)
(* The branches of the loop body, lines 81-109, on the loop state           *)
(* s = [files, downloaded, skipped, failed, requests, log, results, last,   *)
(* writes].                                                                 *)
(***************************************************************************)

\* lines 87-89: the file exists
on_exists(s, property_id) ==
  [s EXCEPT !.skipped = @ + 1,
            !.results = Append(@, Result(property_id, "skipped")),
            !.last = Answer(NoResponse, SaveOk)]

\* line 94: requests.get(url, timeout=10) is issued
on_request(s, property_id, url) ==
  [s EXCEPT !.requests = Append(@, [id |-> property_id, url |-> url])]

\* lines 105-107: requests.get raised
on_request_exception(s, property_id, resp) ==
  [s EXCEPT !.failed = @ + 1,
            !.log = Append(@, Diag("ERROR", property_id, 0)),
            !.results = Append(@, Result(property_id, "failed")),
            !.last = Answer(resp, SaveOk)]

\* lines 96-98, and 105-107 when save_image raises
on_ok(s, property_id, image_path, resp, sv) ==
  LET saved == [s EXCEPT !.files = save_image(@, resp.content, image_path, sv),
                         !.writes[image_path] = @ + (IF save_opened(sv) THEN 1 ELSE 0),
                         !.last = Answer(resp, sv)]
  IN
  IF save_raised(sv)
  THEN [saved EXCEPT !.failed = @ + 1,
                     !.log = Append(@, Diag("ERROR", property_id, 0)),
                     !.results = Append(@, Result(property_id, "failed"))]
  ELSE [saved EXCEPT !.downloaded = @ + 1,
                     !.results = Append(@, Result(property_id, "downloaded"))]

\* faulty variant: the failure is not counted
on_http_error_uncounted(s, property_id, image_path, resp) ==
  [s EXCEPT !.log = Append(@, Diag("FAILED", property_id, resp.status_code)),
            !.results = Append(@, Result(property_id, "failed")),
            !.last = Answer(resp, SaveOk)]

\* faulty variant: the status code is not checked
on_http_error_saved(s, property_id, image_path, resp) ==
  on_ok(s, property_id, image_path, resp, SaveOk)

\* lines 99-103: a status code other than 200
on_http_error(s, property_id, image_path, resp) ==
  [s EXCEPT !.failed = @ + 1,
            !.log = Append(@, Diag("FAILED", property_id, resp.status_code)),
            !.results = Append(@, Result(property_id, "failed")),
            !.last = Answer(resp, SaveOk)]

(***************************************************************************)
(* One iteration of the loop body, lines 81-109, given the environment's    *)
(* answer resp to the GET and sv to the save.  time.sleep(SLEEP_TIME)       *)
(* changes no state.                                                        *)
(***************************************************************************)
Iteration(s, row, resp, sv) ==
  LET property_id == row["id"]
      lat == row["lat"]
      lon == row["long"]
      image_path == image_path_of(property_id)
  IN
  IF path_exists(s.files, image_path)
  THEN on_exists(s, property_id)
  ELSE
    LET url == build_image_url(lat, lon)
        s1 == on_request(s, property_id, url)
    IN
    IF resp.kind = "raised"
    THEN on_request_exception(s1, property_id, resp)
    ELSE IF resp.status_code = 200
    THEN on_ok(s1, property_id, image_path, resp, sv)
    ELSE on_http_error(s1, property_id, image_path, resp)

LoopState ==
  [ files |-> files, downloaded |-> downloaded, skipped |-> skipped, failed |-> failed,
    requests |-> requests, log |-> log, results |-> results, last |-> last, writes |-> writes ]

----------------------------------------------------------------------------
(* Initial states *)

RowsOver(cols) ==
  { [c \in cols |-> CASE c = "id" -> r[1] [] c = "lat" -> r[2] [] c = "long" -> r[3] [] OTHER -> 0]
      : r \in Ids \X Lats \X Longs }

SeqsUpTo(S, n) == UNION { [1..k -> S] : k \in 0..n }

DatasetsUpTo(n) ==
  UNION { { [columns |-> cols, rows |-> rows] : rows \in SeqsUpTo(RowsOver(cols), n) }
            : cols \in ColumnSets }

Datasets == DatasetsUpTo(MaxRows)

Directories == [ Paths -> {NoFile, File(OldContent)} ]

NoPerm == <<>>

Init ==
  /\ csv \in Datasets
  /\ files \in Directories
  /\ dir_exists \in BOOLEAN
  /\ (\E p \in Paths : files[p].exists) => dir_exists
  /\ pc = "idle"
  /\ run = 0
  /\ df = <<>>
  /\ total = 0 /\ downloaded = 0 /\ skipped = 0 /\ failed = 0
  /\ i = 0
  /\ requests = <<>>
  /\ log = <<>>
  /\ results = <<>>
  /\ last = Answer(NoResponse, SaveOk)
  /\ files_at_start = files
  /\ prev_results = <<>>
  /\ writes = [p \in Paths |-> 0]
  /\ endpoint = NoPerm /\ disk = NoPerm /\ order = NoPerm /\ alt = NoPerm

----------------------------------------------------------------------------
(* Actions *)

PermVarsUnchanged == UNCHANGED << endpoint, disk, order, alt >>

CanStart == pc \in {"idle", "done", "raised"} /\ run < MaxRuns

\* faulty variant: only the id column is required
has_id_col(columns) == "id" \in columns

\* lines 69-70
has_required_cols(columns) == required_cols \subseteq columns

\* lines 65-71 when the column check fails: mkdir, read_csv, raise ValueError
StartMissingColumns ==
  /\ CanStart
  /\ ~ has_required_cols(csv.columns)
  /\ run' = run + 1
  /\ dir_exists' = TRUE
  /\ df' = csv.rows
  /\ pc' = "raised"
  /\ files_at_start' = files
  /\ prev_results' = results
  /\ results' = <<>> /\ requests' = <<>> /\ log' = <<>>
  /\ i' = 0
  /\ UNCHANGED << csv, files, total, downloaded, skipped, failed, last, writes >>
  /\ PermVarsUnchanged

\* lines 65-78: mkdir, read_csv, column check passes, counters initialised
Start ==
  /\ CanStart
  /\ has_required_cols(csv.columns)
  /\ run' = run + 1
  /\ dir_exists' = TRUE
  /\ df' = csv.rows
  /\ total' = Len(csv.rows)
  /\ downloaded' = 0 /\ skipped' = 0 /\ failed' = 0
  /\ i' = 0
  /\ pc' = "loop"
  /\ files_at_start' = files
  /\ prev_results' = results
  /\ results' = <<>> /\ requests' = <<>> /\ log' = <<>>
  /\ UNCHANGED << csv, files, last, writes >>
  /\ PermVarsUnchanged

\* lines 80-109: the loop body on the next row, with the environment's answers
Step(resp, sv) ==
  /\ pc = "loop"
  /\ i < total
  /\ LET s == Iteration(LoopState, df[i + 1], resp, sv) IN
       /\ files' = s.files
       /\ downloaded' = s.downloaded
       /\ skipped' = s.skipped
       /\ failed' = s.failed
       /\ requests' = s.requests
       /\ log' = s.log
       /\ results' = s.results
       /\ last' = s.last
       /\ writes' = s.writes
  /\ i' = i + 1
  /\ UNCHANGED << csv, dir_exists, pc, run, df, total, files_at_start, prev_results >>
  /\ PermVarsUnchanged

NextPath == image_path_of(df[i + 1]["id"])

InLoop == pc = "loop" /\ i < total

\* lines 87-89
SkipExisting ==
  /\ InLoop /\ path_exists(files, NextPath)
  /\ Step(NoResponse, SaveOk)

\* lines 94-98, save_image returns
Download ==
  /\ InLoop /\ ~ path_exists(files, NextPath)
  /\ \E b \in Bodies : Step(Response(200, b), SaveOk)

\* lines 94-97 and 105-107: status 200, save_image raises
SaveError ==
  /\ InLoop /\ ~ path_exists(files, NextPath)
  /\ \E b \in Bodies : \E sv \in SaveFaults(b) : Step(Response(200, b), sv)

\* lines 94-96 and 99-103
HttpFailure ==
  /\ InLoop /\ ~ path_exists(files, NextPath)
  /\ \E c \in StatusCodes \ {200} : Step(Response(c, ErrorBody), SaveOk)

\* faulty variant: the exception is not caught and ends the run
RequestErrorUncaught ==
  /\ InLoop /\ ~ path_exists(files, NextPath)
  /\ requests' = Append(requests, [id |-> df[i + 1]["id"],
                                   url |-> build_image_url(df[i + 1]["lat"], df[i + 1]["long"])])
  /\ last' = Answer(Raised, SaveOk)
  /\ pc' = "raised"
  /\ UNCHANGED << csv, dir_exists, files, run, df, total, downloaded, skipped, failed,
                  i, log, results, files_at_start, prev_results, writes >>
  /\ PermVarsUnchanged

\* lines 94 and 105-107: requests.get raises
RequestError ==
  /\ InLoop /\ ~ path_exists(files, NextPath)
  /\ Step(Raised, SaveOk)

\* lines 111-117
Finish ==
  /\ pc = "loop"
  /\ i = total
  /\ log' = Append(log, [tag |-> "SUMMARY", total |-> total, downloaded |-> downloaded,
                         skipped |-> skipped, failed |-> failed])
  /\ pc' = "done"
  /\ UNCHANGED << csv, dir_exists, files, run, df, total, downloaded, skipped, failed,
                  i, requests, results, last, files_at_start, prev_results, writes >>
  /\ PermVarsUnchanged

Next ==
  \/ StartMissingColumns
  \/ Start
  \/ SkipExisting
  \/ Download
  \/ SaveError
  \/ HttpFailure
  \/ RequestError
  \/ Finish

Spec == Init /\ [][Next]_vars

\* the loop is sequential and every call in it returns or raises (the GET has a timeout)
FairSpec == Spec /\ WF_vars(Next)

----------------------------------------------------------------------------
(***************************************************************************)
(* The whole run as a function of its inputs: the rows, the directory, a   *)
(* fixed endpoint (coordinates -> answer) and a fixed file system           *)
(* behaviour (path -> outcome of saving there).                             *)
(***************************************************************************)

Coords == Lats \X Longs

Endpoints == [ Coords -> { Response(200, <<1, 2>>), Response(200, <<3>>),
                           Response(404, ErrorBody), Raised } ]

DiskFaults == { "ok", "open_failed", "write_failed" }

Disks == [ Paths -> DiskFaults ]

save_outcome(dk, path) == [kind |-> dk[path], written |-> 0]

NewLoopState(fs) ==
  [ files |-> fs, downloaded |-> 0, skipped |-> 0, failed |-> 0,
    requests |-> <<>>, log |-> <<>>, results |-> <<>>,
    last |-> Answer(NoResponse, SaveOk), writes |-> [p \in Paths |-> 0] ]

\* lines 73-109 on the rows, in their order
RECURSIVE RunLoop(_, _, _, _)
RunLoop(s, rows, ep, dk) ==
  IF rows = <<>> THEN s
  ELSE LET row == Head(rows)
           resp == ep[<< row["lat"], row["long"] >>]
           sv == save_outcome(dk, image_path_of(row["id"]))
       IN RunLoop(Iteration(s, row, resp, sv), Tail(rows), ep, dk)

Perms(n) == { f \in [1..n -> 1..n] : \A a, b \in 1..n : a # b => f[a] # f[b] }

Permuted(rows, f) == [k \in 1..Len(rows) |-> rows[f[k]]]

Outcome(s) ==
  [ files |-> s.files, downloaded |-> s.downloaded, skipped |-> s.skipped, failed |-> s.failed ]

PermInit ==
  /\ csv \in { d \in Datasets : has_required_cols(d.columns) }
  /\ files \in Directories
  /\ dir_exists = TRUE
  /\ pc = "idle"
  /\ run = 0
  /\ df = <<>>
  /\ total = 0 /\ downloaded = 0 /\ skipped = 0 /\ failed = 0
  /\ i = 0
  /\ requests = <<>>
  /\ log = <<>>
  /\ results = <<>>
  /\ last = Answer(NoResponse, SaveOk)
  /\ files_at_start = files
  /\ prev_results = <<>>
  /\ writes = [p \in Paths |-> 0]
  /\ endpoint \in Endpoints
  /\ disk \in Disks
  /\ order \in Perms(Len(csv.rows))
  /\ alt = Outcome(NewLoopState(files))

\* lines 61-117 on the dataset as given, and on the same rows in the order `order`
\* against the same directory, endpoint and file system
RunBothOrders ==
  /\ pc = "idle"
  /\ LET s == RunLoop(NewLoopState(files), csv.rows, endpoint, disk)
         t == RunLoop(NewLoopState(files), Permuted(csv.rows, order), endpoint, disk)
     IN
       /\ files' = s.files
       /\ downloaded' = s.downloaded
       /\ skipped' = s.skipped
       /\ failed' = s.failed
       /\ requests' = s.requests
       /\ results' = s.results
       /\ last' = s.last
       /\ writes' = s.writes
       /\ log' = Append(s.log, [tag |-> "SUMMARY", total |-> Len(csv.rows),
                                downloaded |-> s.downloaded, skipped |-> s.skipped,
                                failed |-> s.failed])
       /\ alt' = Outcome(t)
  /\ df' = csv.rows
  /\ total' = Len(csv.rows)
  /\ i' = Len(csv.rows)
  /\ run' = run + 1
  /\ pc' = "done"
  /\ UNCHANGED << csv, dir_exists, files_at_start, prev_results, endpoint, disk, order >>

PermNext == RunBothOrders

SpecPerm == PermInit /\ [][PermNext]_vars

----------------------------------------------------------------------------
(* Properties *)

Counted(kind) == Cardinality({ k \in 1..Len(results) : results[k].kind = kind })

RequestedIds == { requests[k].id : k \in 1..Len(requests) }

\* the step taken is one iteration of the loop body
Iterates == pc = "loop" /\ i' = i + 1

SummaryReported ==
  /\ log # <<>>
  /\ log[Len(log)] = [tag |-> "SUMMARY", total |-> total, downloaded |-> downloaded,
                      skipped |-> skipped, failed |-> failed]

(* C1: when a run has completed, downloaded + skipped + failed = total, total *)
(* is the number of dataset rows, and every row is counted in exactly one of *)
(* the three counters (during the loop the three add up to the rows consumed). *)
C1_CountersPartitionRows ==
  /\ pc = "loop" =>
       /\ downloaded + skipped + failed = i
       /\ Len(results) = i
  /\ pc = "done" =>
       /\ total = Len(csv.rows)
       /\ downloaded + skipped + failed = total
       /\ Len(results) = total
       /\ downloaded = Counted("downloaded")
       /\ skipped = Counted("skipped")
       /\ failed = Counted("failed")

C1_Witness ==
  /\ pc = "done" /\ total = 2
  /\ df[1]["id"] = df[2]["id"]
  /\ results[1].kind = "failed" /\ results[2].kind = "downloaded"
  /\ failed = 1 /\ downloaded = 1 /\ skipped = 0

(* C2: a record whose file exists when a run starts is skipped by that run, *)
(* no request is issued for it, and its file keeps its content.             *)
C2_ExistingFileSkippedUntouched ==
  pc \in {"loop", "done"} =>
    \A k \in 1..Len(df) :
      LET p == image_path_of(df[k]["id"]) IN
      files_at_start[p].exists =>
        /\ k <= Len(results) => results[k].kind = "skipped"
        /\ df[k]["id"] \notin RequestedIds
        /\ files[p] = files_at_start[p]

C2_Witness ==
  /\ pc = "done" /\ total = 2
  /\ files_at_start[image_path_of(df[1]["id"])].exists
  /\ results[1].kind = "skipped"
  /\ results[2].kind = "downloaded"
  /\ files[image_path_of(df[1]["id"])] = File(OldContent)

(* C3: a record counted as failed leaves the directory as it was: no file is *)
(* written at its path.                                                      *)
C3_FailedWritesNoFile ==
  [][ (Iterates /\ results'[i'].kind = "failed") => files' = files ]_vars

(* C4: after a second run on the same dataset and directory, every record   *)
(* that failed in the first run was requested again (and persisted when the *)
(* endpoint answered 200), every record downloaded in the first run was     *)
(* skipped, and only records whose file was absent were requested.          *)
C4_RerunRecoversFailures ==
  (pc = "done" /\ run = 2) =>
    \A k \in 1..total :
      /\ prev_results[k].kind = "failed" => results[k].kind # "skipped"
      /\ prev_results[k].kind = "downloaded" => results[k].kind = "skipped"
      /\ results[k].kind # "skipped" => ~ files_at_start[image_path_of(df[k]["id"])].exists

(* C5: with a required column missing the run raises before any record is  *)
(* processed: no request, no file written, nothing counted or reported.     *)
C5_MissingColumnsFailFast ==
  ~ (required_cols \subseteq csv.columns) =>
    /\ pc \in {"idle", "raised"}
    /\ requests = <<>>
    /\ results = <<>>
    /\ log = <<>>
    /\ files = files_at_start
    /\ \A p \in Paths : writes[p] = 0

C5_Witness ==
  /\ pc = "raised"
  /\ "lat" \notin csv.columns
  /\ Len(df) = 2

(* C6: a status code other than 200 creates no file, adds exactly one to    *)
(* failed, leaves downloaded and skipped alone, and prints a diagnostic     *)
(* naming the record id and the status code.                                *)
C6_Non200CountsFailed ==
  [][ (Iterates /\ last'.resp.kind = "http" /\ last'.resp.status_code # 200) =>
        /\ ~ files[NextPath].exists
        /\ files' = files
        /\ failed' = failed + 1
        /\ downloaded' = downloaded
        /\ skipped' = skipped
        /\ log' = Append(log, Diag("FAILED", df[i + 1]["id"], last'.resp.status_code)) ]_vars

C6_Witness ==
  /\ pc = "loop" /\ i = 1
  /\ last.resp.kind = "http" /\ last.resp.status_code = 500
  /\ failed = 1
  /\ ~ files[image_path_of(df[1]["id"])].exists
  /\ log = << Diag("FAILED", df[1]["id"], 500) >>

C8_FileWrittenAtMostOnce ==
  [][ \A p \in Paths :
        /\ writes'[p] <= 1
        /\ files[p].exists =>
             /\ files'[p] = files[p]
             /\ writes'[p] = writes[p]
             /\ Len(requests') > Len(requests) =>
                  image_path_of(requests'[Len(requests')].id) # p ]_vars

C8_Witness ==
  /\ pc = "done" /\ run = 2 /\ total = 2
  /\ df[1]["id"] = df[2]["id"]
  /\ prev_results[1].kind = "downloaded" /\ prev_results[2].kind = "skipped"
  /\ results[1].kind = "skipped" /\ results[2].kind = "skipped"
  /\ writes[image_path_of(df[1]["id"])] = 1

(* C9: a run that entered the loop leaves it only by completing, and it     *)
(* does complete: every row has been processed once, in row order, whatever *)
(* the endpoint answered, and the summary has been reported.                *)
C9_RunCompletes ==
  /\ [][ pc = "loop" => /\ pc' \in {"loop", "done"}
                        /\ i' # i => (i' = i + 1 /\ Len(results') = i')
                        /\ pc' = "done" => i = total ]_vars
  /\ (pc = "loop") ~>
       ( /\ pc = "done"
         /\ i = Len(csv.rows)
         /\ Len(results) = Len(csv.rows)
         /\ \A k \in 1..Len(results) : results[k].id = csv.rows[k]["id"]
         /\ SummaryReported )

C9_Witness ==
  /\ pc = "done" /\ total = 2
  /\ last.resp.kind = "http" /\ last.resp.status_code = 200
  /\ results[1].kind = "failed" /\ results[2].kind = "downloaded"
  /\ df[1]["id"] # df[2]["id"]
  /\ SummaryReported

DistinctIds(rows) ==
  \A a, b \in 1..Len(rows) : a # b => rows[a]["id"] # rows[b]["id"]

SameOutcome == alt = Outcome(LoopState)

(* C10, as stated: for a fixed endpoint, any permutation of the rows yields  *)
(* the same final files and the same counters.                               *)
C10_Original == pc = "done" => SameOutcome

(* C10, amended: for a dataset whose ids are pairwise distinct, a fixed      *)
(* endpoint and a fixed outcome of saving each file, any permutation of the *)
(* rows yields the same final files and the same counters.                  *)
C10_OrderIndependentDistinctIds ==
  (pc = "done" /\ DistinctIds(csv.rows)) => SameOutcome

C10_Witness ==
  /\ pc = "done" /\ total = 2
  /\ DistinctIds(csv.rows)
  /\ order = << 2, 1 >>
  /\ downloaded = 1 /\ failed = 1
  /\ SameOutcome

====
